---- MODULE Spec2Model ----
(***************************************************************************)
(* State-machine model of the TabBar component                             *)
(* (src/src/components/tabBar/index.tsx).                                  *)
(*                                                                         *)
(* Indices are 0-based as in the source; the k-th child (0-based) is       *)
(* children[k + 1].  A child is represented by its `ignore` prop.          *)
(* A handler (press, prop update, scroll event, content-size event,        *)
(* timer callback) is one atomic step: React flushes the setState batch    *)
(* of a handler, re-renders and runs the setState callbacks before the     *)
(* next event or timer is dispatched.                                      *)
(***************************************************************************)
EXTENDS Integers, Sequences, FiniteSets, TLC

\* ---------------------------------------------------------------- bounds
MaxChildren == 2
MaxPresses == 2
MaxWidth == 3
MaxOffset == 2
MaxX == 1
MaxItemWidth == 1
ScreenWidth == 2
PressLimit == 1

\* ------------------------------------------------------------- constants
MIN_TABS_FOR_SCROLL == 1

\* An undefined prop or instance field.
Absent == 0 - 1
\* getLayout() returned nothing.
NoLayout == [x |-> Absent, width |-> Absent]

VARIABLES
  children,           \* props.children: sequence of the children's `ignore`
  selectedIndex,      \* props.selectedIndex
  minTabsForScroll,   \* props.minTabsForScroll (Absent when not passed)
  containerWidth,     \* props.containerWidth (Absent when not passed)
  currentIndex,       \* state.currentIndex
  scrollEnabled,      \* state.scrollEnabled
  scrollContentWidth, \* this.scrollContentWidth (Absent until first event)
  contentOffset,      \* this.contentOffset.x
  itemsRefs,          \* number of entries of this.itemsRefs holding a ref
  selected,           \* the `selected` prop given to each child by render
  timers,             \* pending setTimeout(..., 0) callbacks, FIFO
  log,                \* invocations of onChangeIndex/onTabSelected/onPress
  presses,            \* the presses handled so far: index and the child's ignore
  scrollRuns,         \* runs of scrollToSelected in the last handler
  childLayout,        \* the layout scrollToSelected read in the last handler
  scrollToCalls,      \* x targets of scrollBar.scrollTo in the last handler
  error               \* a TypeError escaped a handler

vars == <<children, selectedIndex, minTabsForScroll, containerWidth,
          currentIndex, scrollEnabled, scrollContentWidth, contentOffset,
          itemsRefs, selected, timers, log, presses, scrollRuns,
          childLayout, scrollToCalls, error>>

props == <<children, selectedIndex, minTabsForScroll, containerWidth>>
effects == <<scrollRuns, childLayout, scrollToCalls>>

\* ------------------------------------------------------------ input sets
ChildLists == UNION {[1..n -> BOOLEAN] : n \in 0..MaxChildren}
Indices == 0..MaxChildren
MinTabs == {Absent} \cup 0..MaxChildren
ContainerWidths == {Absent, 0, 1}
Widths == 0..MaxWidth
Offsets == 0..MaxOffset
Layouts == {NoLayout} \cup [x : 0..MaxX, width : 1..MaxItemWidth]
\* Children none of which is ignored.
PlainLists == {c \in ChildLists : \A k \in DOMAIN c : ~c[k]}
\* One unavailable and one available layout, where the layout is not the point.
SomeLayouts == {NoLayout, [x |-> 0, width |-> 1]}

\* ------------------------------------------------------- pure operations
childrenCount(ch) == Len(ch)

scrollContainerWidth(cw) == IF cw = Absent \/ cw = 0 THEN ScreenWidth ELSE cw

isIgnored(ch, index) == (index + 1) \in DOMAIN ch /\ ch[index + 1]

\* Variant: a content width equal to the container width counts as overflow.
hasOverflow_orEqual(scw, cw) == scw # Absent /\ scw >= scrollContainerWidth(cw)

hasOverflow(scw, cw) == scw # Absent /\ scw > scrollContainerWidth(cw)

\* Variant: the children count is not looked at.
shouldBeMarked_single(cur, ch, index) == cur = index /\ ~isIgnored(ch, index)

shouldBeMarked(cur, ch, index) ==
  cur = index /\ ~isIgnored(ch, index) /\ childrenCount(ch) > 1

renderChildren(cur, ch) ==
  [k \in 1..Len(ch) |-> shouldBeMarked(cur, ch, k - 1)]

\* Variant: the index is set whether or not the child is ignored.
updateIndicator_noGuard(ch, index, st) == [cur |-> index, runs |-> st.runs + 1]

\* The pending setState batch of a handler: the currentIndex requested so
\* far and the number of queued scrollToSelected callbacks.
updateIndicator(ch, index, st) ==
  IF ~isIgnored(ch, index)
    THEN [cur |-> index, runs |-> st.runs + 1]
    ELSE st

\* Variant: the recorded scroll offset is not taken into account.
scrollToSelected_noOffset(layout, ox, scw, cw) ==
  IF layout # NoLayout /\ hasOverflow(scw, cw)
    THEN IF layout.x + layout.width > scrollContainerWidth(cw)
           THEN <<layout.x - scrollContainerWidth(cw) + layout.width>>
           ELSE IF layout.x < 0
                  THEN <<layout.x>>
                  ELSE <<>>
    ELSE <<>>

\* The scrollTo calls of one run of scrollToSelected.
scrollToSelected(layout, ox, scw, cw) ==
  IF layout # NoLayout /\ hasOverflow(scw, cw)
    THEN IF layout.x + layout.width - ox > scrollContainerWidth(cw)
           THEN <<layout.x - scrollContainerWidth(cw) + layout.width>>
           ELSE IF layout.x - ox < 0
                  THEN <<layout.x>>
                  ELSE <<>>
    ELSE <<>>

minChildrenCount(mts) == IF mts = Absent \/ mts = 0 THEN MIN_TABS_FOR_SCROLL ELSE mts

\* Variant: onTabSelected is invoked before onChangeIndex.
timerCallbacks_swapped(t) ==
  <<[cb |-> "onTabSelected", index |-> t.index, press |-> t.press]>>
  \o (IF ~t.ignore
        THEN <<[cb |-> "onChangeIndex", index |-> t.index, press |-> t.press]>>
        ELSE <<>>)
  \o <<[cb |-> "onPress", index |-> t.index, press |-> t.press]>>

\* Variant: onChangeIndex is invoked for ignored items too.
timerCallbacks_noIgnoreCheck(t) ==
  <<[cb |-> "onChangeIndex", index |-> t.index, press |-> t.press],
    [cb |-> "onTabSelected", index |-> t.index, press |-> t.press],
    [cb |-> "onPress", index |-> t.index, press |-> t.press]>>

\* The body of the deferred callback of onItemPress.
timerCallbacks(t) ==
  (IF ~t.ignore
     THEN <<[cb |-> "onChangeIndex", index |-> t.index, press |-> t.press]>>
     ELSE <<>>)
  \o <<[cb |-> "onTabSelected", index |-> t.index, press |-> t.press],
       [cb |-> "onPress", index |-> t.index, press |-> t.press]>>

RECURSIVE Repeat(_, _)
Repeat(s, n) == IF n = 0 THEN <<>> ELSE s \o Repeat(s, n - 1)

\* Commit of a setState batch: the state is set, the children are rendered
\* again, then each queued callback runs scrollToSelected.  A callback whose
\* item reference is missing throws on childRef.getLayout().
Flush(st, ch, cw, layout) ==
  /\ currentIndex' = st.cur
  /\ itemsRefs' = childrenCount(ch)
  /\ selected' = renderChildren(st.cur, ch)
  /\ IF st.runs = 0
       THEN /\ scrollRuns' = 0
            /\ childLayout' = NoLayout
            /\ scrollToCalls' = <<>>
            /\ error' = error
       ELSE IF st.cur >= childrenCount(ch)
              THEN /\ scrollRuns' = 1
                   /\ childLayout' = NoLayout
                   /\ scrollToCalls' = <<>>
                   /\ error' = TRUE
              ELSE /\ scrollRuns' = st.runs
                   /\ childLayout' = layout
                   /\ scrollToCalls' =
                        Repeat(scrollToSelected(layout, contentOffset,
                                                scrollContentWidth, cw), st.runs)
                   /\ error' = error

\* ----------------------------------------------------------------- Init
\* The state after the constructor and the first render, for props drawn
\* from the given sets.
InitWith(lists, indices, mins, widths) ==
  /\ children \in lists
  /\ selectedIndex \in indices
  /\ minTabsForScroll \in mins
  /\ containerWidth \in widths
  /\ currentIndex = selectedIndex
  /\ scrollEnabled = FALSE
  /\ scrollContentWidth = Absent
  /\ contentOffset = 0
  /\ itemsRefs = childrenCount(children)
  /\ selected = renderChildren(currentIndex, children)
  /\ timers = <<>>
  /\ log = <<>>
  /\ presses = <<>>
  /\ scrollRuns = 0
  /\ childLayout = NoLayout
  /\ scrollToCalls = <<>>
  /\ error = FALSE

\* -------------------------------------------------------------- actions
\* Variant: the comparison of the children counts is inverted.
childrenDecreased_inverted(count, prevChildrenCount) == count > prevChildrenCount

\* Variant: the previous selectedIndex prop is not compared.
isIndexManuallyChanged_onlyState(newSelected, prevCurrentIndex, prevSelected) ==
  newSelected # prevCurrentIndex

\* componentDidUpdate: the children count went down.
childrenDecreased(count, prevChildrenCount) == count < prevChildrenCount

\* componentDidUpdate: the selectedIndex prop differs from the previous state's
\* currentIndex and from the previous prop.
isIndexManuallyChanged(newSelected, prevCurrentIndex, prevSelected) ==
  newSelected # prevCurrentIndex /\ prevSelected # newSelected

\* A new set of props arrives: render, then componentDidUpdate.
UpdateProps(newChildren, newSelected, newMin, newWidth, layout) ==
  /\ ~error
  /\ children' = newChildren
  /\ selectedIndex' = newSelected
  /\ minTabsForScroll' = newMin
  /\ containerWidth' = newWidth
  /\ LET st0 == [cur |-> currentIndex, runs |-> 0]
         st1 == IF childrenDecreased(childrenCount(newChildren), childrenCount(children))
                  THEN updateIndicator(newChildren, 0, st0)
                  ELSE st0
         st2 == IF isIndexManuallyChanged(newSelected, currentIndex, selectedIndex)
                  THEN updateIndicator(newChildren, newSelected, st1)
                  ELSE st1
     IN Flush(st2, newChildren, newWidth, layout)
  /\ UNCHANGED <<scrollEnabled, scrollContentWidth, contentOffset,
                 timers, log, presses>>

\* The rendered child `index` is pressed.
Press(index, layout, limit) ==
  /\ ~error
  /\ Len(presses) < limit
  /\ index < childrenCount(children)
  /\ Flush(updateIndicator(children, index, [cur |-> currentIndex, runs |-> 0]),
           children, containerWidth, layout)
  /\ presses' = Append(presses, [index |-> index, ignore |-> children[index + 1]])
  /\ timers' = Append(timers, [index |-> index,
                               ignore |-> children[index + 1],
                               press |-> Len(presses) + 1])
  /\ UNCHANGED <<props, scrollEnabled, scrollContentWidth, contentOffset, log>>

\* The oldest pending zero-delay timer fires.
Timer ==
  /\ timers # <<>>
  /\ log' = log \o timerCallbacks(Head(timers))
  /\ timers' = Tail(timers)
  /\ scrollRuns' = 0
  /\ childLayout' = NoLayout
  /\ scrollToCalls' = <<>>
  /\ UNCHANGED <<props, currentIndex, scrollEnabled, scrollContentWidth,
                 contentOffset, itemsRefs, selected, presses, error>>

OnScroll(x) ==
  /\ ~error
  /\ contentOffset' = x
  /\ scrollRuns' = 0
  /\ childLayout' = NoLayout
  /\ scrollToCalls' = <<>>
  /\ UNCHANGED <<props, currentIndex, scrollEnabled, scrollContentWidth,
                 itemsRefs, selected, timers, log, presses, error>>

OnContentSizeChange(width) ==
  /\ ~error
  /\ IF scrollContentWidth # width
       THEN /\ scrollContentWidth' = width
            /\ scrollEnabled' =
                 IF hasOverflow(width, containerWidth)
                    /\ childrenCount(children) > minChildrenCount(minTabsForScroll)
                   THEN TRUE
                   ELSE scrollEnabled
       ELSE UNCHANGED <<scrollContentWidth, scrollEnabled>>
  /\ scrollRuns' = 0
  /\ childLayout' = NoLayout
  /\ scrollToCalls' = <<>>
  /\ UNCHANGED <<props, currentIndex, contentOffset, itemsRefs, selected,
                 timers, log, presses, error>>

\* ------------------------------------------------------- specifications
\* Selection: updates of children and selectedIndex, presses, timers.
Init == InitWith(ChildLists, Indices, {Absent}, {Absent})

Next ==
  \/ \E c \in ChildLists, s \in Indices, l \in SomeLayouts :
        UpdateProps(c, s, minTabsForScroll, containerWidth, l)
  \/ \E i \in Indices, l \in SomeLayouts : Press(i, l, PressLimit)
  \/ Timer

Spec == Init /\ [][Next]_vars

\* Presses and their deferred callbacks, while the children change.
NextPress ==
  \/ \E c \in ChildLists :
        UpdateProps(c, selectedIndex, minTabsForScroll, containerWidth, NoLayout)
  \/ \E i \in Indices : Press(i, NoLayout, MaxPresses)
  \/ Timer

SpecPress == Init /\ [][NextPress]_vars

\* Scroll enabling: every handler, with the sizing props varying.
InitEnable == InitWith(PlainLists, {0}, MinTabs, ContainerWidths)

NextEnable ==
  \/ \E c \in PlainLists, m \in MinTabs, w \in ContainerWidths :
        UpdateProps(c, selectedIndex, m, w, NoLayout)
  \/ \E i \in Indices : Press(i, NoLayout, PressLimit)
  \/ Timer
  \/ \E x \in Offsets : OnScroll(x)
  \/ \E w \in Widths : OnContentSizeChange(w)

SpecEnable == InitEnable /\ [][NextEnable]_vars

\* Auto-scroll: the indicator is moved by presses and selectedIndex updates,
\* under every layout, scroll offset, container width and content width.
InitAutoScroll == InitWith(PlainLists, Indices, {Absent}, ContainerWidths)

NextAutoScroll ==
  \/ \E s \in Indices, l \in Layouts :
        UpdateProps(children, s, minTabsForScroll, containerWidth, l)
  \/ \E c \in PlainLists, w \in ContainerWidths, l \in SomeLayouts :
        UpdateProps(c, selectedIndex, minTabsForScroll, w, l)
  \/ \E i \in Indices, l \in Layouts : Press(i, l, PressLimit)
  \/ Timer
  \/ \E x \in Offsets : OnScroll(x)
  \/ \E w \in Widths : OnContentSizeChange(w)

SpecAutoScroll == InitAutoScroll /\ [][NextAutoScroll]_vars

\* ------------------------------------------------------------ properties
\* The log entries of press p, in order.
EntriesOf(p) == LET Mine(e) == e.press = p IN SelectSeq(log, Mine)
Pending(p) == \E k \in DOMAIN timers : timers[k].press = p
Entry(name, p) == [cb |-> name, index |-> presses[p].index, press |-> p]

\* C1: a press on a non-ignored tab i sets currentIndex to i and invokes
\* nothing by itself; once its deferred callback has run the log holds, for
\* that press, exactly onChangeIndex(i), onTabSelected(i), onPress in this
\* order, each once, and nothing before it has run.
C1_Callbacks ==
  \A p \in DOMAIN presses :
    ~presses[p].ignore =>
      EntriesOf(p) = IF Pending(p)
                       THEN <<>>
                       ELSE <<Entry("onChangeIndex", p), Entry("onTabSelected", p),
                              Entry("onPress", p)>>
C1_PressStep ==
  \A i \in Indices :
    Press(i, NoLayout, MaxPresses) /\ ~isIgnored(children, i)
      => currentIndex' = i /\ log' = log
C1_PressThenCallbacks == []C1_Callbacks /\ [][C1_PressStep]_vars

\* C1 witness: two presses of non-ignored tabs have both been delivered.
C1_Witness ==
  /\ Len(presses) = 2
  /\ timers = <<>>
  /\ \A p \in DOMAIN presses : ~presses[p].ignore
  /\ presses[1].index # presses[2].index
  /\ Len(log) = 6

\* C2: a press on an ignored tab i never invokes onChangeIndex, and invokes
\* onTabSelected(i) exactly once when its deferred callback runs; every
\* onChangeIndex in the log is for a press of a tab that was not ignored when
\* pressed, with that tab's index.
C2_IgnoredPress ==
  /\ \A p \in DOMAIN presses :
       presses[p].ignore =>
         LET IsChange(e) == e.cb = "onChangeIndex"
             IsSelect(e) == e.cb = "onTabSelected"
         IN /\ SelectSeq(EntriesOf(p), IsChange) = <<>>
            /\ SelectSeq(EntriesOf(p), IsSelect) =
                 IF Pending(p) THEN <<>> ELSE <<Entry("onTabSelected", p)>>
  /\ \A k \in DOMAIN log :
       log[k].cb = "onChangeIndex" =>
         /\ ~presses[log[k].press].ignore
         /\ log[k].index = presses[log[k].press].index

\* C2 witness: an ignored tab's press has been delivered, after a press of a
\* tab that is not ignored.
C2_Witness ==
  /\ Len(presses) = 2
  /\ ~presses[1].ignore
  /\ presses[2].ignore
  /\ timers = <<>>
  /\ Len(log) = 5

\* C3 as stated: a press on an ignored tab i leaves currentIndex equal to i.
C3_IgnoredPressSetsIndex ==
  [][\A i \in Indices :
       Press(i, NoLayout, MaxPresses) /\ isIgnored(children, i)
         => currentIndex' = i]_vars

\* C3 amended: a press on an ignored tab leaves currentIndex as it was.
C3_IgnoredPressKeepsIndex ==
  [][\A i \in Indices :
       Press(i, NoLayout, MaxPresses) /\ isIgnored(children, i)
         => currentIndex' = currentIndex]_vars

\* C3 witness: the latest press was on an ignored tab other than the current one.
C3_Witness ==
  /\ timers # <<>>
  /\ timers[Len(timers)].ignore
  /\ timers[Len(timers)].index # currentIndex
  /\ timers[Len(timers)].press = Len(presses)

\* An update of the children and of selectedIndex, with any layout.
IsUpdate(c, s) ==
  \E l \in SomeLayouts : UpdateProps(c, s, minTabsForScroll, containerWidth, l)

\* C4 as stated: an update that leaves fewer children leaves currentIndex 0.
C4_FewerChildrenResets ==
  [][\A c \in ChildLists, s \in Indices :
       IsUpdate(c, s) /\ Len(c) < Len(children) => currentIndex' = 0]_vars

\* C4 amended: an update that leaves fewer children leaves currentIndex 0,
\* provided the child now at index 0 is not ignored and the update does not
\* also adopt a changed selectedIndex other than 0 whose child is not ignored.
C4_FewerChildrenResetsUnlessIgnored ==
  [][\A c \in ChildLists, s \in Indices :
       /\ IsUpdate(c, s)
       /\ Len(c) < Len(children)
       /\ ~isIgnored(c, 0)
       /\ ~(s # 0 /\ s # currentIndex /\ s # selectedIndex /\ ~isIgnored(c, s))
       => currentIndex' = 0]_vars

\* C4 witness: no press yet, the last update ran scrollToSelected once for
\* index 0 while selectedIndex is not 0: the reset after a removal.
C4_Witness ==
  /\ presses = <<>>
  /\ scrollRuns = 1
  /\ currentIndex = 0
  /\ selectedIndex # 0
  /\ ~error

\* C5 as stated: an update that changes selectedIndex to j, other than the
\* previous prop and the previous currentIndex, makes currentIndex j and runs
\* scrollToSelected; an update that neither changes selectedIndex nor lowers
\* the children count leaves currentIndex unchanged.
C5_Adopts ==
  [][\A c \in ChildLists, s \in Indices :
       IsUpdate(c, s) =>
         /\ (s # selectedIndex /\ s # currentIndex)
              => (currentIndex' = s /\ scrollRuns' >= 1)
         /\ (s = selectedIndex /\ Len(c) >= Len(children))
              => currentIndex' = currentIndex]_vars

\* C5 amended: as C5, for a j whose child is not ignored.
C5_AdoptsUnlessIgnored ==
  [][\A c \in ChildLists, s \in Indices :
       IsUpdate(c, s) =>
         /\ (s # selectedIndex /\ s # currentIndex /\ ~isIgnored(c, s))
              => (currentIndex' = s /\ scrollRuns' >= 1)
         /\ (s = selectedIndex /\ Len(c) >= Len(children))
              => currentIndex' = currentIndex]_vars

\* C5 witness: no press yet, the last update ran scrollToSelected once for
\* the selectedIndex prop, which is not 0: the adoption of a changed prop.
C5_Witness ==
  /\ presses = <<>>
  /\ scrollRuns = 1
  /\ currentIndex = selectedIndex
  /\ currentIndex # 0
  /\ currentIndex < Len(children)
  /\ ~error

\* The minimum the minTabsForScroll prop configures, 1 when it is not passed.
ConfiguredMinimum == IF minTabsForScroll = Absent THEN 1 ELSE minTabsForScroll

\* C6 as stated: a content-size change to an overflowing width, with more
\* children than the configured minimum, turns scrollEnabled on, and no step
\* turns it off.
C6_EnabledAndStays ==
  [][/\ \A w \in Widths :
          /\ OnContentSizeChange(w)
          /\ w # scrollContentWidth
          /\ w > scrollContainerWidth(containerWidth)
          /\ Len(children) > ConfiguredMinimum
          => scrollEnabled'
     /\ scrollEnabled => scrollEnabled']_vars

\* The container width as the caller passes it: the prop, else the screen.
PassedContainerWidth == IF containerWidth = Absent THEN ScreenWidth ELSE containerWidth

\* C7: scrollEnabled starts false, and a content-size change to a width not
\* above the container width never turns it from false to true.
C7_NoOverflowNeverEnables ==
  /\ ~scrollEnabled
  /\ [][\A w \in Widths :
          OnContentSizeChange(w) /\ w <= PassedContainerWidth /\ ~scrollEnabled
            => ~scrollEnabled']_vars

\* C7 witness: a width that does not overflow has been recorded with more
\* children than the minimum, and scrolling is still disabled.
C7_Witness ==
  /\ scrollContentWidth # Absent
  /\ scrollContentWidth = PassedContainerWidth
  /\ Len(children) > ConfiguredMinimum
  /\ ~scrollEnabled

\* The scrollTo targets the auto-scroll rule prescribes for one run.
C8_Expected ==
  LET x == childLayout.x
      width == childLayout.width
      C == scrollContainerWidth(containerWidth)
      W == scrollContentWidth
  IN IF W = Absent \/ W <= C THEN <<>>
     ELSE IF x + width - contentOffset > C THEN <<x + width - C>>
     ELSE IF x - contentOffset < 0 THEN <<x>>
     ELSE <<>>

\* C8: every run of scrollToSelected that read a layout issued exactly the
\* scrollTo calls of the auto-scroll rule, for the last recorded offset.
C8_AutoScroll ==
  (scrollRuns >= 1 /\ childLayout # NoLayout)
    => scrollToCalls = Repeat(C8_Expected, scrollRuns)

\* C8 witness: after scrolling away, a run aligned the item's left edge.
C8_Witness ==
  /\ scrollRuns = 1
  /\ childLayout # NoLayout
  /\ contentOffset > childLayout.x
  /\ scrollToCalls = <<childLayout.x>>

\* C9: child k is rendered selected exactly when k is currentIndex, the child
\* is not ignored and there is more than one child; so at most one is.
C9_Selected ==
  /\ Len(selected) = Len(children)
  /\ \A k \in DOMAIN children :
       selected[k] <=> (k - 1 = currentIndex /\ ~children[k] /\ Len(children) > 1)
  /\ Cardinality({k \in DOMAIN selected : selected[k]}) <= 1
  /\ Len(children) = 1 => ~selected[1]

\* C9 witness: the second of two children is rendered selected.
C9_Witness ==
  /\ Len(children) = 2
  /\ selected = <<FALSE, TRUE>>
  /\ presses # <<>>

\* C10 as stated: moving the indicator never raises an error.
C10_NoFailure == ~error
====
